---- MODULE Spec2Model ----
(***************************************************************************)
(* A model of ha_cam_tag/__main__.py: the capture loop of main(), the      *)
(* detector thread detector_loop(), the SIGINT handler, the debounce test  *)
(* and send_tag_event(), and the regular expression TAG_ID_PATTERN.        *)
(*                                                                         *)
(* Spec        the whole program: main thread, detector thread, SIGINT.    *)
(* FairSpec    Spec with weak fairness of both threads (liveness claims).  *)
(* SpecDetect  detector_loop() run against a frame source that binds the   *)
(*             name `frame` (lines 57-73 as a function of the frames, the  *)
(*             decoder's and the sink's outcomes and the clock).           *)
(* SpecPattern TAG_ID_PATTERN.match applied to bounded texts.              *)
(***************************************************************************)
EXTENDS Integers, Sequences, FiniteSets, TLC

VARIABLES
    mpc,          \* main(): the line the main thread is at
    dpc,          \* detector_loop(): the line the detector thread is at
    exiting,      \* threading.Event `exiting`
    cv,           \* threading.Event `cv`
    mframe,       \* main()'s local `frame`: None, or the id of the frame read
    gframe,       \* what the name `frame` means inside detector_loop()
    streamBound,  \* main()'s local `stream` has been assigned
    streamOpen,   \* the VideoCapture bound to `stream` is open
    handler,      \* the lambda of line 86 is installed for SIGINT
    interrupts,   \* SIGINTs delivered so far
    published,    \* id of the last frame for which line 99 ran cv.set()
    nOpen,        \* VideoCapture(...) attempts up to the first that opened
    nFail,        \* failed attempts before the first that opened
    nBackoff,     \* time.sleep(5) calls before the first attempt that opened
    everOpened,   \* some attempt has opened the stream
    sleptSince,   \* seconds slept since the last VideoCapture(...) attempt
    gap,          \* seconds slept between the last two attempts
    after,        \* opens, reads, publishes, sleeps since exiting was set
    last_time,    \* detector_loop(): local last_time
    last_tag,     \* detector_loop(): local last_tag
    data,         \* detector_loop(): local data (the decoded text)
    tag_id,       \* detector_loop(): local tag_id
    cur_time,     \* detector_loop(): local cur_time
    decoded,      \* ids of the frames handed to detectAndDecode, in order
    wokeAt,       \* `published` when cv.wait() last returned
    now,          \* the wall clock, in seconds
    cands,        \* the (tag_id, cur_time) pairs that reached line 64
    posts,        \* the requests.post calls made: (tag_id, time, result)
    raised,       \* an exception left send_tag_event()
    ptext,        \* SpecPattern: the text matched
    presult       \* SpecPattern: group(1) of the match, or NoMatch

progVars == <<mpc, exiting, cv, mframe, streamBound, streamOpen, handler,
              interrupts, published, nOpen, nFail, nBackoff, everOpened,
              sleptSince, gap, after>>
progNoCv == <<mpc, exiting, mframe, streamBound, streamOpen, handler,
              interrupts, published, nOpen, nFail, nBackoff, everOpened,
              sleptSince, gap, after>>
detVars  == <<dpc, gframe, last_time, last_tag, data, tag_id, cur_time,
              decoded, wokeAt, cands, posts, raised>>
patVars  == <<ptext, presult>>
vars     == <<progVars, detVars, now, patVars>>

----------------------------------------------------------------------------
(* Bounds of the model *)

MaxFrames     == 2   \* frames the stream delivers before its reads fail
MaxFails      == 2   \* failed opens counted before the first success
MaxInterrupts == 2   \* SIGINTs delivered
MaxIter       == 3   \* SpecDetect: frames handed to the detector
MaxClock      == 6   \* SpecDetect: the last second of the clock
MaxTail       == 2   \* SpecPattern: characters after a text's head

(* Program constants *)

DEBOUNCE_PERIOD == 5   \* line 17, timedelta(seconds=5)
BACKOFF         == 5   \* lines 93 and 105, time.sleep(5)

NoFrame == 0           \* None where a frame is expected (lines 78, 97)
Unbound == -1          \* a name with no binding: reading it raises NameError
NoTime  == -1          \* None where a time is expected (line 55)
NoTag   == <<>>        \* None where a tag id is expected (line 55)

----------------------------------------------------------------------------
(* main(), lines 75-117.  The state starts after line 83: the detector     *)
(* thread runs, the SIGINT handler is not installed yet.                   *)

MainRest == <<detVars, now, patVars>>

(* The counts of `after` with one more step of the kind `what`, counted    *)
(* once exiting is set.                                                    *)
Since(what) ==
    IF exiting THEN [after EXCEPT ![what] = @ + 1] ELSE after

(* SIGINT before line 86 has run: Python's default handler raises          *)
(* KeyboardInterrupt in the main thread, which is outside the try block of *)
(* line 88, so main() is left by the exception.                            *)
DefaultSigint ==
    /\ mpc = "install"
    /\ interrupts < MaxInterrupts
    /\ interrupts' = interrupts + 1
    /\ mpc' = "killed"
    /\ UNCHANGED <<exiting, cv, mframe, streamBound, streamOpen, handler,
                   published, nOpen, nFail, nBackoff, everOpened,
                   sleptSince, gap, after,
                   MainRest>>

(* Line 86: signal.signal(SIGINT, lambda sig, frame: exiting.set()) *)
InstallHandler ==
    /\ mpc = "install"
    /\ handler' = TRUE
    /\ mpc' = "outer"
    /\ UNCHANGED <<exiting, cv, mframe, streamBound, streamOpen, interrupts,
                   published, nOpen, nFail, nBackoff, everOpened,
                   sleptSince, gap, after,
                   MainRest>>

(* What the lambda of line 86 does to (exiting, cv): exiting.set(). *)
HandlerBody(e, c) == <<TRUE, c>>

(* A SIGINT with the handler of line 86 installed.  Python runs the        *)
(* handler in the main thread between two bytecodes, also while the main   *)
(* thread sleeps or waits in join(); the interrupted call then resumes.    *)
Sigint ==
    /\ handler
    /\ mpc # "returned"
    /\ interrupts < MaxInterrupts
    /\ interrupts' = interrupts + 1
    /\ exiting' = HandlerBody(exiting, cv)[1]
    /\ cv' = HandlerBody(exiting, cv)[2]
    /\ UNCHANGED <<mpc, mframe, streamBound, streamOpen, handler,
                   published, nOpen, nFail, nBackoff, everOpened,
                   sleptSince, gap, after,
                   MainRest>>

(* Line 89 giving up after a failed open or read instead of retrying. *)
MOuter_GiveUp ==
    /\ mpc = "outer"
    /\ mpc' = IF exiting \/ sleptSince > 0 THEN "finally" ELSE "open"
    /\ UNCHANGED <<exiting, cv, mframe, streamBound, streamOpen, handler,
                   interrupts, published, nOpen, nFail, nBackoff, everOpened,
                   sleptSince, gap, after,
                   MainRest>>

(* Line 89: while not exiting.is_set() *)
MOuter ==
    /\ mpc = "outer"
    /\ mpc' = IF exiting THEN "finally" ELSE "open"
    /\ UNCHANGED <<exiting, cv, mframe, streamBound, streamOpen, handler,
                   interrupts, published, nOpen, nFail, nBackoff, everOpened,
                   sleptSince, gap, after,
                   MainRest>>

(* A failed open retried at once, without the sleep of line 93. *)
AfterOpenFailure_NoSleep == "outer"

(* Where a failed open goes: line 93, time.sleep(5), then continue. *)
AfterOpenFailure == "backoff"

(* Lines 90-91: stream = cv2.VideoCapture(...); if not stream.isOpened().  *)
(* The source decides whether the open succeeds.  The attempts, failures   *)
(* and sleeps are counted up to the first attempt that opens the stream.   *)
MOpen ==
    /\ mpc = "open"
    /\ \E ok \in BOOLEAN :
         /\ ok \/ everOpened \/ nFail < MaxFails
         /\ streamBound' = TRUE
         /\ streamOpen' = ok
         /\ nOpen' = IF everOpened THEN nOpen ELSE nOpen + 1
         /\ nFail' = IF everOpened \/ ok THEN nFail ELSE nFail + 1
         /\ everOpened' = (everOpened \/ ok)
         /\ gap' = sleptSince
         /\ sleptSince' = 0
         /\ mpc' = IF ok THEN "inner" ELSE AfterOpenFailure
    /\ after' = Since("open")
    /\ UNCHANGED <<exiting, cv, mframe, handler, interrupts, published,
                   nBackoff, MainRest>>

(* Lines 93-94: time.sleep(5); continue *)
MBackoff ==
    /\ mpc = "backoff"
    /\ sleptSince' = sleptSince + BACKOFF
    /\ nBackoff' = IF everOpened THEN nBackoff ELSE nBackoff + 1
    /\ mpc' = "outer"
    /\ after' = Since("sleep")
    /\ UNCHANGED <<exiting, cv, mframe, streamBound, streamOpen, handler,
                   interrupts, published, nOpen, nFail, everOpened, gap,
                   MainRest>>

(* Line 96 without its second test: while stream.isOpened() *)
MInner_IgnoreExit ==
    /\ mpc = "inner"
    /\ mpc' = IF streamOpen THEN "read" ELSE "release"
    /\ UNCHANGED <<exiting, cv, mframe, streamBound, streamOpen, handler,
                   interrupts, published, nOpen, nFail, nBackoff, everOpened,
                   sleptSince, gap, after,
                   MainRest>>

(* Line 96: while stream.isOpened() and not exiting.is_set() *)
MInner ==
    /\ mpc = "inner"
    /\ mpc' = IF streamOpen /\ ~exiting THEN "read" ELSE "release"
    /\ UNCHANGED <<exiting, cv, mframe, streamBound, streamOpen, handler,
                   interrupts, published, nOpen, nFail, nBackoff, everOpened,
                   sleptSince, gap, after,
                   MainRest>>

(* Lines 97-98, 101-102: ret, frame = stream.read().  The source decides;  *)
(* it delivers MaxFrames frames at most, numbered 1, 2, ...  A failed read *)
(* returns (False, None) and the loop is left by break.                    *)
MRead ==
    /\ mpc = "read"
    /\ \E ok \in BOOLEAN :
         /\ ok => published < MaxFrames
         /\ mframe' = IF ok THEN published + 1 ELSE NoFrame
         /\ mpc' = IF ok THEN "set" ELSE "release"
    /\ after' = Since("read")
    /\ UNCHANGED <<exiting, cv, streamBound, streamOpen, handler,
                   interrupts, published, nOpen, nFail, nBackoff, everOpened,
                   sleptSince, gap, MainRest>>

(* Line 99: cv.set() *)
MSet ==
    /\ mpc = "set"
    /\ cv' = TRUE
    /\ published' = mframe
    /\ mpc' = "inner"
    /\ after' = Since("pub")
    /\ UNCHANGED <<exiting, mframe, streamBound, streamOpen, handler,
                   interrupts, nOpen, nFail, nBackoff, everOpened,
                   sleptSince, gap, MainRest>>

(* Line 104 left out: the stream is not released when the loop is left. *)
MRelease_Skip ==
    /\ mpc = "release"
    /\ mpc' = "sleep"
    /\ UNCHANGED <<exiting, cv, mframe, streamBound, streamOpen, handler,
                   interrupts, published, nOpen, nFail, nBackoff, everOpened,
                   sleptSince, gap, after,
                   MainRest>>

(* Line 104: stream.release() *)
MRelease ==
    /\ mpc = "release"
    /\ streamOpen' = FALSE
    /\ mpc' = "sleep"
    /\ UNCHANGED <<exiting, cv, mframe, streamBound, handler,
                   interrupts, published, nOpen, nFail, nBackoff, everOpened,
                   sleptSince, gap, after,
                   MainRest>>

(* Line 105: time.sleep(5) *)
MSleep ==
    /\ mpc = "sleep"
    /\ sleptSince' = sleptSince + BACKOFF
    /\ mpc' = "outer"
    /\ after' = Since("sleep")
    /\ UNCHANGED <<exiting, cv, mframe, streamBound, streamOpen, handler,
                   interrupts, published, nOpen, nFail, nBackoff, everOpened,
                   gap, MainRest>>

(* Lines 111-113: finally: stream.release().  When the loop of line 89 was *)
(* never entered, `stream` has no value and the statement raises           *)
(* UnboundLocalError, which leaves main() before line 115.                 *)
MFinally ==
    /\ mpc = "finally"
    /\ mpc' = IF streamBound THEN "join" ELSE "crashed"
    /\ streamOpen' = FALSE
    /\ UNCHANGED <<exiting, cv, mframe, streamBound, handler,
                   interrupts, published, nOpen, nFail, nBackoff, everOpened,
                   sleptSince, gap, after,
                   MainRest>>

(* The detector thread has ended: its loop was left, or an exception left  *)
(* detector_loop().                                                        *)
DetectorEnded == dpc \in {"exited", "crashed"}

(* Lines 115-117: detector_thread.join(); return 0 *)
MJoin ==
    /\ mpc = "join"
    /\ DetectorEnded
    /\ mpc' = "returned"
    /\ UNCHANGED <<exiting, cv, mframe, streamBound, streamOpen, handler,
                   interrupts, published, nOpen, nFail, nBackoff, everOpened,
                   sleptSince, gap, after,
                   MainRest>>

MainNext ==
    \/ InstallHandler
    \/ MOuter
    \/ MOpen
    \/ MBackoff
    \/ MInner
    \/ MRead
    \/ MSet
    \/ MRelease
    \/ MSleep
    \/ MFinally
    \/ MJoin

----------------------------------------------------------------------------
(* TAG_ID_PATTERN, line 18, and texts.  A text is a tuple of characters.   *)

(* The characters of 'https://www.home-assistant.io/tag/', which is both   *)
(* the fixed base URL followed by /tag/ and the head of the pattern.       *)
UrlPrefix ==
    << "h","t","t","p","s",":","/","/","w","w","w",".","h","o","m","e","-",
       "a","s","s","i","s","t","a","n","t",".","i","o","/","t","a","g","/" >>

(* [0-9a-fA-F-] *)
HexHyphen ==
    { "0","1","2","3","4","5","6","7","8","9",
      "a","b","c","d","e","f","A","B","C","D","E","F","-" }

NoMatch == <<>>        \* match() returned None (group(1) is never empty)

(* One pattern character against one text character: in a regular          *)
(* expression an unescaped '.' matches any character but a newline, any    *)
(* other character of this pattern matches itself.                         *)
ElemMatches(p, c) == IF p = "." THEN c # "\n" ELSE p = c

(* The length of the longest run of [0-9a-fA-F-] in text from position     *)
(* from: what the greedy '+' consumes.                                     *)
RECURSIVE RunLength(_, _)
RunLength(text, from) ==
    IF from <= Len(text) /\ text[from] \in HexHyphen
    THEN 1 + RunLength(text, from + 1)
    ELSE 0

(* TAG_ID_PATTERN.match(text): match() anchors the pattern at the start of *)
(* the text and not at its end; the result is group(1), or NoMatch.        *)
Match(text) ==
    LET n == Len(UrlPrefix)
        prefixOk == /\ Len(text) >= n
                    /\ \A i \in 1..n : ElemMatches(UrlPrefix[i], text[i])
    IN  IF prefixOk /\ RunLength(text, n + 1) >= 1
        THEN SubSeq(text, n + 1, n + RunLength(text, n + 1))
        ELSE NoMatch

----------------------------------------------------------------------------
(* detector_loop(), lines 52-73 *)

DetRest == <<progNoCv, now, patVars>>

(* Line 57: while not exiting.is_set() *)
DCheck ==
    /\ dpc = "check"
    /\ dpc' = IF exiting THEN "exited" ELSE "wait"
    /\ UNCHANGED <<cv, gframe, last_time, last_tag, data, tag_id, cur_time,
                   decoded, wokeAt, cands, posts, raised, DetRest>>

(* Line 58: cv.wait() returns once the event is set *)
DWait ==
    /\ dpc = "wait"
    /\ cv
    /\ dpc' = "test"
    /\ wokeAt' = published
    /\ UNCHANGED <<cv, gframe, last_time, last_tag, data, tag_id, cur_time,
                   decoded, cands, posts, raised, DetRest>>

(* Line 59: if frame is not None.  detector_loop() has no local and no     *)
(* parameter `frame` (main()'s `frame` is a local of main()), so the name  *)
(* is looked up in the module's globals.  Unbound there, the lookup raises *)
(* NameError outside the try of line 60 and the thread ends.               *)
DTest ==
    /\ dpc = "test"
    /\ dpc' = IF gframe = Unbound THEN "crashed"
              ELSE IF gframe # NoFrame THEN "decode"
              ELSE "clear"
    /\ UNCHANGED <<cv, gframe, last_time, last_tag, data, tag_id, cur_time,
                   decoded, wokeAt, cands, posts, raised, DetRest>>

(* Texts a frame can decode to: nothing, two tags, a tag followed by other *)
(* characters, another URL.                                                *)
TagX == <<"a", "b", "1", "2", "-", "C", "D", "3", "4">>
TagY == <<"0", "f">>
DecodedTexts ==
    { <<>>,
      UrlPrefix \o TagX,
      UrlPrefix \o TagY,
      <<"h","t","t","p","s",":","/","/","e","x","a","m","p","l","e",".",
        "c","o","m","/","o","t","h","e","r">> }

(* Line 61: data, _, _ = detector.detectAndDecode(frame); the decoder      *)
(* decides the text, or raises cv2.error or another exception, which lines *)
(* 67-70 log before the loop goes on at line 73.                           *)
DDecode ==
    /\ dpc = "decode"
    /\ decoded' = Append(decoded, gframe)
    /\ \/ /\ \E t \in DecodedTexts : data' = t
          /\ dpc' = "match"
       \/ /\ \E e \in {"cv2.error", "Exception"} : TRUE
          /\ data' = data
          /\ dpc' = "clear"
    /\ UNCHANGED <<cv, gframe, last_time, last_tag, tag_id, cur_time,
                   wokeAt, cands, posts, raised, DetRest>>

(* Lines 62-63: if data and (m := TAG_ID_PATTERN.match(data)):             *)
(*              cur_time, tag_id = datetime.now(), m.group(1)              *)
DMatch ==
    /\ dpc = "match"
    /\ IF data # <<>> /\ Match(data) # NoMatch
       THEN /\ tag_id' = Match(data)
            /\ cur_time' = now
            /\ dpc' = "gate"
       ELSE /\ UNCHANGED <<tag_id, cur_time>>
            /\ dpc' = "clear"
    /\ UNCHANGED <<cv, gframe, last_time, last_tag, data,
                   decoded, wokeAt, cands, posts, raised, DetRest>>

(* Line 64 with <= for <: a sighting exactly one period later emits. *)
Gate_Inclusive(lastTag, lastTime, tag, cur) ==
    IF lastTag # tag THEN "emit"
    ELSE IF lastTime = NoTime THEN "TypeError"
    ELSE IF lastTime <= cur - DEBOUNCE_PERIOD THEN "emit"
    ELSE "suppress"

(* Line 64 without its first test: every tag is held back for the period. *)
Gate_TimeOnly(lastTag, lastTime, tag, cur) ==
    IF lastTime = NoTime THEN "emit"
    ELSE IF lastTime < cur - DEBOUNCE_PERIOD THEN "emit"
    ELSE "suppress"

(* Line 64: last_tag != tag_id or last_time < cur_time - DEBOUNCE_PERIOD.  *)
(* `or` evaluates its right side only when the left is false; comparing    *)
(* None with a datetime raises TypeError.                                  *)
Gate(lastTag, lastTime, tag, cur) ==
    IF lastTag # tag THEN "emit"
    ELSE IF lastTime = NoTime THEN "TypeError"
    ELSE IF lastTime < cur - DEBOUNCE_PERIOD THEN "emit"
    ELSE "suppress"

(* Line 64 with the sighting time stored on a suppression too: every      *)
(* sighting restarts the window.                                           *)
DGate_Refresh ==
    /\ dpc = "gate"
    /\ cands' = Append(cands, <<tag_id, cur_time>>)
    /\ dpc' = IF Gate(last_tag, last_time, tag_id, cur_time) = "emit"
              THEN "send" ELSE "clear"
    /\ last_time' = IF Gate(last_tag, last_time, tag_id, cur_time) = "emit"
                    THEN last_time ELSE cur_time
    /\ UNCHANGED <<cv, gframe, last_tag, data, tag_id, cur_time,
                   decoded, wokeAt, posts, raised, DetRest>>

(* Line 64 as a step: an emit goes on to line 65, a suppression to line    *)
(* 73, a TypeError to the handler of line 69 and then to line 73.          *)
DGate ==
    /\ dpc = "gate"
    /\ cands' = Append(cands, <<tag_id, cur_time>>)
    /\ dpc' = IF Gate(last_tag, last_time, tag_id, cur_time) = "emit"
              THEN "send" ELSE "clear"
    /\ UNCHANGED <<cv, gframe, last_time, last_tag, data, tag_id, cur_time,
                   decoded, wokeAt, posts, raised, DetRest>>

(* What the sink call of lines 34-35 can do: succeed, or raise             *)
(* ConnectionError (requests.post) or HTTPError (raise_for_status).        *)
SinkResults == {"ok", "ConnectionError", "HTTPError"}

(* Line 37 catching ConnectionError alone: an HTTP error status escapes. *)
Caught_ConnectionOnly(r) == r = "ConnectionError"

(* Line 37: except requests.exceptions.RequestException; both errors are   *)
(* subclasses of it.                                                       *)
Caught(r) == r \in {"ConnectionError", "HTTPError"}

(* The requests.post calls send_tag_event() makes for one call of it whose *)
(* sink call ends with r: one, lines 33-38 hold no loop.                   *)
SendTagEvent(tag, cur, r) == << <<tag, cur, r>> >>

(* Line 65: send_tag_event(tag_id, config['tag_event_device_id']).  An     *)
(* exception send_tag_event() does not catch reaches line 69, is logged,   *)
(* and the loop goes on at line 73 without running line 66.                *)
DSend ==
    /\ dpc = "send"
    /\ \E r \in SinkResults :
         /\ posts' = posts \o SendTagEvent(tag_id, cur_time, r)
         /\ raised' = (raised \/ (r # "ok" /\ ~Caught(r)))
         /\ dpc' = IF r = "ok" \/ Caught(r) THEN "update" ELSE "clear"
    /\ UNCHANGED <<cv, gframe, last_time, last_tag, data, tag_id, cur_time,
                   decoded, wokeAt, cands, DetRest>>

(* Line 66 storing the tag alone: last_time stays None. *)
DUpdate_TagOnly ==
    /\ dpc = "update"
    /\ last_tag' = tag_id
    /\ dpc' = "clear"
    /\ UNCHANGED <<cv, gframe, last_time, data, tag_id, cur_time,
                   decoded, wokeAt, cands, posts, raised, DetRest>>

(* Line 66 run only when the sink call succeeded. *)
DUpdate_OnSuccess ==
    /\ dpc = "update"
    /\ IF posts[Len(posts)][3] = "ok"
       THEN last_time' = cur_time /\ last_tag' = tag_id
       ELSE UNCHANGED <<last_time, last_tag>>
    /\ dpc' = "clear"
    /\ UNCHANGED <<cv, gframe, data, tag_id, cur_time,
                   decoded, wokeAt, cands, posts, raised, DetRest>>

(* Line 66: last_time, last_tag = cur_time, tag_id *)
DUpdate ==
    /\ dpc = "update"
    /\ last_time' = cur_time
    /\ last_tag' = tag_id
    /\ dpc' = "clear"
    /\ UNCHANGED <<cv, gframe, data, tag_id, cur_time,
                   decoded, wokeAt, cands, posts, raised, DetRest>>

(* Line 73: cv.clear() *)
DClear ==
    /\ dpc = "clear"
    /\ cv' = FALSE
    /\ dpc' = "check"
    /\ UNCHANGED <<gframe, last_time, last_tag, data, tag_id, cur_time,
                   decoded, wokeAt, cands, posts, raised, DetRest>>

(* The steps of the detector thread the program can take.                  *)
DetNext ==
    \/ DCheck
    \/ DWait
    \/ DTest

(* The steps of lines 60-73, which need `frame` to be bound.               *)
DetBody ==
    \/ DDecode
    \/ DMatch
    \/ DGate
    \/ DSend
    \/ DUpdate
    \/ DClear

----------------------------------------------------------------------------
(* The program *)

DetInit ==
    /\ dpc = "check"
    /\ last_time = NoTime
    /\ last_tag = NoTag
    /\ data = <<>>
    /\ tag_id = NoTag
    /\ cur_time = NoTime
    /\ decoded = <<>>
    /\ wokeAt = 0
    /\ cands = <<>>
    /\ posts = <<>>
    /\ raised = FALSE

ProgInit ==
    /\ mpc = "install"
    /\ exiting = FALSE
    /\ cv = FALSE
    /\ mframe = NoFrame
    /\ streamBound = FALSE
    /\ streamOpen = FALSE
    /\ handler = FALSE
    /\ interrupts = 0
    /\ published = 0
    /\ nOpen = 0
    /\ nFail = 0
    /\ nBackoff = 0
    /\ everOpened = FALSE
    /\ sleptSince = 0
    /\ gap = 0
    /\ after = [open |-> 0, read |-> 0, pub |-> 0, sleep |-> 0]

PatIdle ==
    /\ ptext = <<>>
    /\ presult = <<>>

Init ==
    /\ ProgInit
    /\ DetInit
    /\ gframe = Unbound
    /\ now = 0
    /\ PatIdle

Next ==
    \/ DefaultSigint
    \/ Sigint
    \/ MainNext
    \/ DetNext

Spec == Init /\ [][Next]_vars

(* Both threads are scheduled again and again; a SIGINT need never come.   *)
FairSpec == Spec /\ WF_vars(MainNext) /\ WF_vars(DetNext)

----------------------------------------------------------------------------
(* detector_loop() against a frame source that binds `frame`: lines 57-73  *)
(* as a function of the frames, the decoder, the sink and the clock.  The  *)
(* source hands over one frame at a time, while the detector waits.        *)

(* A frame is bound to `frame` and cv is set, as line 99 does. *)
HFrame ==
    /\ dpc = "wait"
    /\ ~cv
    /\ gframe < MaxIter
    /\ gframe' = gframe + 1
    /\ cv' = TRUE
    /\ UNCHANGED <<dpc, last_time, last_tag, data, tag_id, cur_time,
                   decoded, wokeAt, cands, posts, raised, DetRest>>

(* A second passes; datetime.now() is read once per frame, at line 63.     *)
Tick ==
    /\ dpc = "wait"
    /\ ~cv
    /\ now < MaxClock
    /\ now' = now + 1
    /\ UNCHANGED <<progVars, detVars, patVars>>

InitDetect ==
    /\ ProgInit
    /\ DetInit
    /\ gframe = NoFrame
    /\ now = 0
    /\ PatIdle

NextDetect ==
    \/ HFrame
    \/ Tick
    \/ DetNext
    \/ DetBody

SpecDetect == InitDetect /\ [][NextDetect]_vars

----------------------------------------------------------------------------
(* TAG_ID_PATTERN.match over bounded texts *)

TailAlphabet == {"a", "C", "4", "-", "g", "/"}

Tails == UNION { [1..n -> TailAlphabet] : n \in 0..MaxTail }

(* The heads of the texts: the base URL with /tag/, the same with a token  *)
(* begun, the same with another character where the pattern has '.',      *)
(* another URL, and nothing.                                               *)
Heads ==
    { UrlPrefix,
      UrlPrefix \o <<"a", "b", "1", "2", "-", "C", "D", "3">>,
      [UrlPrefix EXCEPT ![12] = "X"],
      <<"h","t","t","p","s",":","/","/","e","x","a","m","p","l","e",".",
        "c","o","m","/","o","t","h","e","r">>,
      <<>> }

Texts == { h \o t : h \in Heads, t \in Tails }

Pending == <<"pending">>

InitPattern ==
    /\ ProgInit
    /\ DetInit
    /\ gframe = Unbound
    /\ now = 0
    /\ ptext \in Texts
    /\ presult = Pending

(* Line 62: m := TAG_ID_PATTERN.match(data), then m.group(1) *)
PatMatch ==
    /\ presult = Pending
    /\ presult' = Match(ptext)
    /\ UNCHANGED <<progVars, detVars, now, ptext>>

NextPattern == PatMatch

SpecPattern == InitPattern /\ [][NextPattern]_vars

----------------------------------------------------------------------------
(* Claims about the program (Spec, FairSpec) *)

(* C1 (FairSpec).  Shutdown termination: once the interrupt has set the    *)
(* shutdown signal, the detector's wait returns, the detector thread ends, *)
(* the join completes and main() returns 0, also when no frame was ever    *)
(* published, unless a second interrupt comes first.                       *)
C1_ShutdownTermination ==
    exiting ~> ((mpc = "returned" /\ DetectorEnded) \/ interrupts > 1)

(* C4.  Frame Slot freshness: when the detector has taken (its wait has    *)
(* returned on a publish and it has read `frame`), the frame it holds is   *)
(* the one published last before the take, or a later one: a frame of the  *)
(* Supervisor, never an earlier one.                                       *)
C4_FrameSlotFreshness ==
    dpc \notin {"check", "wait", "test", "exited"}
        => (gframe >= 1 /\ gframe >= wokeAt)

(* C9.  The interrupt handler sets the shutdown signal and wakes the Frame *)
(* Slot's waiters: right after it has run, exiting and cv are both set.    *)
C9_HandlerSetsBoth ==
    [][Sigint => (exiting' /\ cv')]_vars

(* The newest frame handed to the decoder so far, 0 when there is none. *)
NewestDecoded ==
    IF decoded = <<>> THEN 0 ELSE decoded[Len(decoded)]

(* C10 (FairSpec).  No lost wake-up: when the detector has taken a frame   *)
(* (its wait returned on an earlier publish) and the Supervisor then       *)
(* publishes frame k, frame k or a newer one is processed by the detector  *)
(* without a further publish, unless shutdown is requested.                *)
C10_NoLostWakeup ==
    \A k \in 2..MaxFrames :
        (published = k /\ wokeAt >= 1 /\ wokeAt < k)
            ~> (exiting \/ NewestDecoded >= k)

(* C6.  Reconnection: when the open fails N times and then succeeds, the   *)
(* Supervisor has made N+1 attempts and slept N times, 5 seconds between   *)
(* two consecutive attempts, and cv is not set and no frame is read or     *)
(* published before the open that succeeds.                                *)
C6_Reconnection ==
    /\ ~everOpened => (published = 0 /\ ~cv /\ mframe = NoFrame)
    /\ nOpen = nFail + (IF everOpened THEN 1 ELSE 0)
    /\ nBackoff = IF ~everOpened /\ mpc = "backoff" THEN nFail - 1 ELSE nFail
    /\ nOpen >= 2 => gap = BACKOFF

(* The open has failed twice or more, then succeeded, and a frame has been *)
(* published.                                                              *)
C6_Witness ==
    /\ everOpened
    /\ nFail >= 2
    /\ nOpen = nFail + 1
    /\ nBackoff = nFail
    /\ published >= 1
    /\ ~exiting

----------------------------------------------------------------------------
(* Claims about the detector's loop body (SpecDetect) *)

(* The (tag_id, time) of each requests.post call, in order. *)
PostKeys == [i \in 1..Len(posts) |-> <<posts[i][1], posts[i][2]>>]

(* Whether d seconds are a full debounce window: d >= 5 when the window is *)
(* inclusive, d > 5 when it is not.                                        *)
Elapsed(d, inclusive) ==
    IF inclusive THEN d >= DEBOUNCE_PERIOD ELSE d > DEBOUNCE_PERIOD

(* The candidates of cs the debounce rule dispatches, given the last       *)
(* dispatched (lt, ltime): a candidate is dispatched iff its identifier    *)
(* differs from the last dispatched one or the window has elapsed.         *)
RECURSIVE Dispatched(_, _, _, _)
Dispatched(cs, lt, ltime, inclusive) ==
    IF cs = <<>> THEN <<>>
    ELSE LET c == Head(cs)
             emit == \/ c[1] # lt
                     \/ (ltime # NoTime /\ Elapsed(c[2] - ltime, inclusive))
         IN  IF emit
             THEN <<c>> \o Dispatched(Tail(cs), c[1], c[2], inclusive)
             ELSE Dispatched(Tail(cs), lt, ltime, inclusive)

(* Two candidates so far, with the same identifier. *)
TwoSame == Len(cands) = 2 /\ cands[1][1] = cands[2][1]

Alternating ==
    \A i \in 1..(Len(cands) - 1) : cands[i][1] # cands[i + 1][1]

----------------------------------------------------------------------------
(* Claims about TAG_ID_PATTERN (SpecPattern) *)

(* The base URL, /tag/, and a non-empty token of hex digits and hyphens,   *)
(* and nothing else.                                                       *)
WellFormed(text) ==
    LET n == Len(UrlPrefix)
    IN  /\ Len(text) > n
        /\ SubSeq(text, 1, n) = UrlPrefix
        /\ \A i \in (n + 1)..Len(text) : text[i] \in HexHyphen

(* C8.  Identifier extraction: a text yields an identifier exactly when it *)
(* is well formed, and the identifier is its token; any other text yields  *)
(* none.                                                                   *)
C8_IdentifierExtraction ==
    presult # Pending =>
        presult = IF WellFormed(ptext)
                  THEN SubSeq(ptext, Len(UrlPrefix) + 1, Len(ptext))
                  ELSE NoMatch

----------------------------------------------------------------------------
(* Further claims about the program (Spec, FairSpec) *)

(* C11 (FairSpec).  Shutdown wake yields none: when shutdown is requested  *)
(* while the detector waits and no frame has been published since its last *)
(* take, the wait ends and the detector terminates (unless a frame is      *)
(* published after all), and a detector that has left its loop with no     *)
(* frame published has not invoked the decoder, changed the Debounce State *)
(* or dispatched.                                                          *)
C11_ShutdownWakeYieldsNone ==
    /\ (exiting /\ dpc = "wait" /\ published = wokeAt)
           ~> (dpc = "exited" \/ published > wokeAt)
    /\ []((dpc = "exited" /\ published = 0) =>
              /\ decoded = <<>>
              /\ posts = <<>>
              /\ last_tag = NoTag
              /\ last_time = NoTime)

(* C12.  A failed read leaves the Frame Slot unchanged: the step of line   *)
(* 97 whose read fails does not set cv and does not alter the frame the    *)
(* slot holds.                                                             *)
C12_FailedReadKeepsSlot ==
    [][(mpc = "read" /\ mpc' = "release") => (mframe' = mframe /\ cv' = cv)]_vars

(* C15.  Detector availability: the detector's loop is left only after the *)
(* shutdown signal is set; no error raised while handling a woken frame    *)
(* ends the thread.                                                        *)
C15_DetectorAvailability ==
    DetectorEnded => exiting

(* The Supervisor's loop of lines 89-105 has been left. *)
LoopLeft == mpc \in {"finally", "join", "returned", "crashed"}

(* C16 (FairSpec).  The Supervisor retries forever: while shutdown is not  *)
(* requested, every failed open and every failed read is followed, after   *)
(* one backoff wait of 5 seconds, by another open attempt, and the loop is *)
(* left for no other reason than the shutdown signal.                      *)
C16_RetriesForever ==
    /\ [](LoopLeft => exiting)
    /\ (mpc \in {"backoff", "release"})
           ~> (exiting \/ (mpc = "open" /\ sleptSince = BACKOFF))

(* After two failed opens, a successful one and a failed read, the         *)
(* Supervisor is about to open again, one backoff after the failure.       *)
C16_Witness ==
    /\ ~exiting
    /\ mpc = "open"
    /\ nFail >= 2
    /\ published >= 1
    /\ mframe = NoFrame
    /\ sleptSince = BACKOFF

(* C18.  Connection lifecycle: a connection is open only between a         *)
(* successful open and the release of line 104, so at most one is open,    *)
(* none is open when the next open is attempted, and none is open once the *)
(* loop has been left.                                                     *)
C18_ConnectionLifecycle ==
    streamOpen => mpc \in {"inner", "read", "set", "release"}

(* A connection was opened, a read failed, and the Supervisor is about to  *)
(* open again with the connection released.                                *)
C18_Witness ==
    /\ mpc = "open"
    /\ everOpened
    /\ published >= 1
    /\ mframe = NoFrame
    /\ ~streamOpen

(* C17 (FairSpec).  Prompt Supervisor shutdown: once the shutdown signal   *)
(* is set, the Supervisor makes at most one more open attempt, one more    *)
(* read, one more publish and one backoff wait, and its loop is left.      *)
C17_PromptShutdown ==
    /\ [](/\ after.open <= 1
          /\ after.read <= 1
          /\ after.pub <= 1
          /\ after.sleep <= 1)
    /\ exiting ~> LoopLeft

(* The signal came between the test of line 96 and the read: one more      *)
(* frame was read and published, one sleep followed, and the loop is left. *)
C17_Witness ==
    /\ mpc = "finally"
    /\ after.open = 0
    /\ after.read = 1
    /\ after.pub = 1
    /\ after.sleep = 1

----------------------------------------------------------------------------
(* Further claims about the detector's loop body (SpecDetect) *)

(* The candidate at line 64 is about to be suppressed. *)
Suppressing ==
    dpc = "gate" /\ Gate(last_tag, last_time, tag_id, cur_time) = "suppress"

(* Every candidate was dispatched, or was seen within `window` seconds     *)
(* after a dispatch of its identifier.                                     *)
SuppressedOnlyWithin(window) ==
    \A i \in 1..Len(cands) :
        \/ \E j \in 1..Len(posts) : PostKeys[j] = cands[i]
        \/ \E j \in 1..Len(posts) :
               /\ posts[j][1] = cands[i][1]
               /\ cands[i][2] - posts[j][2] >= 0
               /\ cands[i][2] - posts[j][2] <= window

====
